---- MODULE Spec2Model ----
(***************************************************************************)
(* Urgency classification and ranking of a shopping list                   *)
(* (src/src/views/Home.jsx: urgencyObject, sortByUrgency, getItemUrgency,  *)
(* comparePurchaseUrgency, addItem) and the AddItems form                  *)
(* (src/src/components/AddItems.jsx: handleSubmit).                        *)
(*                                                                         *)
(* Time is counted in ticks, TicksPerDay ticks to a calendar day.  A       *)
(* timestamp is a tick number.  An optional value (a Firestore field that  *)
(* may be null or missing) is the empty sequence or a one-element          *)
(* sequence.  A name is a sequence of one-character strings.               *)
(***************************************************************************)
EXTENDS Integers, Sequences, FiniteSets, TLC

VARIABLES
    clock,          \* the wall clock (what `new Date()` returns), in ticks
    data,           \* the item list of the last snapshot (the `items` prop)
    urgencyObject,  \* Home.jsx:256 the module-level buckets
    phase,          \* "idle"; "sorting"; "done", "failed": the pass has just
                    \* returned, or thrown, and nothing has happened since
    arr,            \* the array being sorted in the current pass
    i,              \* insertion sort: index of the element being inserted
    j,              \* insertion sort: current position of that element
    passes,         \* number of passes started
    snapshots,      \* number of snapshots delivered
    passClock,      \* the clock when the current pass started
    prevBuckets,    \* urgencyObject as it was when the current pass started
    last,           \* record of the last call (what it was given, what it returned)
    log,            \* history: classifications made with one fixed instant
    calls,          \* number of direct calls made (SpecClassify)
    closureItems,   \* the `items` captured by the memoized handleSubmit
    form            \* the text in the item-name input

vars == <<clock, data, snapshots, urgencyObject, phase, arr, i, j, passes, passClock,
          prevBuckets, last, log, calls, closureItems, form>>

sortVars == <<phase, arr, i, j, passes, passClock, prevBuckets>>
formVars == <<closureItems, form>>

----------------------------------------------------------------------------
(* Bounds of the model *)

TicksPerDay == 2      \* clock resolution: ticks in one calendar day
MaxTicks == 2         \* how far the clock advances in a behaviour
MaxItems == 3         \* longest item list delivered by a snapshot
MaxPasses == 2        \* sorting passes in a behaviour
MaxSnapshots == 2     \* snapshots delivered in a behaviour
MaxCalls == 2         \* direct calls in a behaviour of SpecClassify
MaxScore == 45        \* scores -MaxScore..MaxScore are given to sortByUrgency
MaxName == 2          \* longest name typed into the form

----------------------------------------------------------------------------
(* Dates *)

At(day, tick) == day * TicksPerDay + tick
Today == 100
StartClock == At(Today, TicksPerDay - 1)      \* the last tick of day Today
MaxClock == StartClock + MaxTicks

None == <<>>
Some(x) == <<x>>

\* the calendar day of a timestamp (truncation to midnight)
dayOf(t) == t \div TicksPerDay

\* utils: getDateLastPurchasedOrDateCreated(dateLastPurchased, dateCreated)
getDateLastPurchasedOrDateCreated(dateLastPurchased, dateCreated) ==
    IF dateLastPurchased # None THEN dateLastPurchased[1] ELSE dateCreated

\* utils: getDaysBetweenDates(a, b): signed whole calendar days from a to b
getDaysBetweenDates(a, b) == dayOf(b) - dayOf(a)

\* utils: getDaysFromDate(date), which reads the clock: `now` is that reading
getDaysFromDate(date, now) == getDaysBetweenDates(date, now)

\* utils: addDaysFromToday(n), which reads the clock: `now` is that reading
addDaysFromToday(n, now) == now + n * TicksPerDay

----------------------------------------------------------------------------
(* Names: String.prototype.localeCompare and the normalisation of AddItems *)

Chars == {"a", "A", "b", " "}

\* the letter of a character, case ignored (primary collation weight);
\* the space sorts before the letters
Primary(c) == CASE c = " " -> 0 [] c = "a" -> 1 [] c = "A" -> 1 [] c = "b" -> 2

\* lower case sorts before upper case (tertiary collation weight)
Tertiary(c) == IF c = "A" THEN 1 ELSE 0

RECURSIVE LexCompare(_, _)
LexCompare(s, t) ==
    IF s = <<>> /\ t = <<>> THEN 0
    ELSE IF s = <<>> THEN -1
    ELSE IF t = <<>> THEN 1
    ELSE IF Head(s) < Head(t) THEN -1
    ELSE IF Head(s) > Head(t) THEN 1
    ELSE LexCompare(Tail(s), Tail(t))

\* a.localeCompare(b): the letters decide; case decides between names that
\* differ by case only
localeCompare(a, b) ==
    LET pa == [k \in 1..Len(a) |-> Primary(a[k])]
        pb == [k \in 1..Len(b) |-> Primary(b[k])]
        ta == [k \in 1..Len(a) |-> Tertiary(a[k])]
        tb == [k \in 1..Len(b) |-> Tertiary(b[k])]
    IN  IF LexCompare(pa, pb) # 0 THEN LexCompare(pa, pb) ELSE LexCompare(ta, tb)

toLowerCase(c) == IF c = "A" THEN "a" ELSE c

RECURSIVE trimStart(_)
trimStart(s) == IF s # <<>> /\ Head(s) = " " THEN trimStart(Tail(s)) ELSE s

RECURSIVE trimEnd(_)
trimEnd(s) ==
    IF s # <<>> /\ s[Len(s)] = " " THEN trimEnd(SubSeq(s, 1, Len(s) - 1)) ELSE s

\* the characters of the class [&\/\\#, +$!,~%.'":*?<>{}] in the alphabet
Punctuation == {" "}

\* AddItems.jsx:27-30 .trim().toLowerCase().replace(/[...]/g, '')
normalize(name) ==
    LET t == trimEnd(trimStart(name))
        l == [k \in 1..Len(t) |-> toLowerCase(t[k])]
    IN  SelectSeq(l, LAMBDA c : c \notin Punctuation)

----------------------------------------------------------------------------
(* Home.jsx:256-358 the classifier and the comparator *)

Tiers == {"overdue", "soon", "kindOfSoon", "notSoon", "inactive"}

\* Home.jsx:256-262
EmptyBuckets == [t \in Tiers |-> {}]

\* sortByUrgencyBranch with the bound of `soon` off by one (<= 7 for < 7)
sortByUrgencyBranch_soonInclusive(daysUntilNextPurchase) ==
    IF daysUntilNextPurchase < 0 THEN "overdue"
    ELSE IF daysUntilNextPurchase = 1000 THEN "inactive"
    ELSE IF daysUntilNextPurchase <= 7 THEN "soon"
    ELSE IF daysUntilNextPurchase >= 7 /\ daysUntilNextPurchase < 30
        THEN "kindOfSoon"
    ELSE IF daysUntilNextPurchase >= 30 THEN "notSoon"
    ELSE "throw"

\* Home.jsx:277-294 the branch sortByUrgency takes for a score;
\* "throw" is the final else
sortByUrgencyBranch(daysUntilNextPurchase) ==
    IF daysUntilNextPurchase < 0 THEN "overdue"
    ELSE IF daysUntilNextPurchase = 1000 THEN "inactive"
    ELSE IF daysUntilNextPurchase < 7 THEN "soon"
    ELSE IF daysUntilNextPurchase >= 7 /\ daysUntilNextPurchase < 30
        THEN "kindOfSoon"
    ELSE IF daysUntilNextPurchase >= 30 THEN "notSoon"
    ELSE "throw"

\* Home.jsx:273-295 sortByUrgency(item, daysUntilNextPurchase) on buckets u:
\* the buckets afterwards and whether it threw
sortByUrgency(u, item, daysUntilNextPurchase) ==
    LET b == sortByUrgencyBranch(daysUntilNextPurchase)
    IN  IF b = "throw"
        THEN [buckets |-> u, threw |-> TRUE, tier |-> None]
        ELSE [buckets |-> [u EXCEPT ![b] = @ \cup {item}], threw |-> FALSE,
              tier |-> Some(b)]

\* getItemUrgency with the dormancy test off by one (> 60 for >= 60)
getItemUrgency_after60(u, item, r1, r2) ==
    LET itemDate == getDateLastPurchasedOrDateCreated(item.dateLastPurchased,
                                                      item.dateCreated)
        daysToToday == getDaysFromDate(itemDate, r1)
    IN  IF daysToToday > 60
        THEN LET s == sortByUrgency(u, item, 1000)
             IN  [buckets |-> s.buckets, threw |-> s.threw, tier |-> s.tier,
                  urgency |-> IF s.threw THEN None ELSE Some(1000)]
        ELSE IF item.dateNextPurchased = None
        THEN [buckets |-> u, threw |-> TRUE, tier |-> None, urgency |-> None]
        ELSE LET daysUntilNextPurchase ==
                     getDaysBetweenDates(r2, item.dateNextPurchased[1])
                 s == sortByUrgency(u, item, daysUntilNextPurchase)
             IN  [buckets |-> s.buckets, threw |-> s.threw, tier |-> s.tier,
                  urgency |-> IF s.threw THEN None
                              ELSE Some(daysUntilNextPurchase)]

\* getItemUrgency that skips an item the buckets already hold and reports it
\* as inactive
getItemUrgency_skipPlaced(u, item, r1, r2) ==
    LET itemDate == getDateLastPurchasedOrDateCreated(item.dateLastPurchased,
                                                      item.dateCreated)
        daysToToday == getDaysFromDate(itemDate, r1)
    IN  IF \E t \in Tiers : item \in u[t]
        THEN [buckets |-> u, threw |-> FALSE, tier |-> Some("inactive"),
              urgency |-> Some(1000)]
        ELSE IF daysToToday >= 60
        THEN LET s == sortByUrgency(u, item, 1000)
             IN  [buckets |-> s.buckets, threw |-> s.threw, tier |-> s.tier,
                  urgency |-> IF s.threw THEN None ELSE Some(1000)]
        ELSE IF item.dateNextPurchased = None
        THEN [buckets |-> u, threw |-> TRUE, tier |-> None, urgency |-> None]
        ELSE LET daysUntilNextPurchase ==
                     getDaysBetweenDates(r2, item.dateNextPurchased[1])
                 s == sortByUrgency(u, item, daysUntilNextPurchase)
             IN  [buckets |-> s.buckets, threw |-> s.threw, tier |-> s.tier,
                  urgency |-> IF s.threw THEN None
                              ELSE Some(daysUntilNextPurchase)]

\* Home.jsx:308-337 getItemUrgency(item) on buckets u.  The clock is read
\* twice: r1 inside getDaysFromDate (line 315), r2 by `new Date()` (line 325).
\* item.dateNextPurchased.toDate() throws a TypeError when the field is
\* missing (line 326), before sortByUrgency is called.
getItemUrgency(u, item, r1, r2) ==
    LET itemDate == getDateLastPurchasedOrDateCreated(item.dateLastPurchased,
                                                      item.dateCreated)
        daysToToday == getDaysFromDate(itemDate, r1)
    IN  IF daysToToday >= 60
        THEN LET s == sortByUrgency(u, item, 1000)
             IN  [buckets |-> s.buckets, threw |-> s.threw, tier |-> s.tier,
                  urgency |-> IF s.threw THEN None ELSE Some(1000)]
        ELSE IF item.dateNextPurchased = None
        THEN [buckets |-> u, threw |-> TRUE, tier |-> None, urgency |-> None]
        ELSE LET daysUntilNextPurchase ==
                     getDaysBetweenDates(r2, item.dateNextPurchased[1])
                 s == sortByUrgency(u, item, daysUntilNextPurchase)
             IN  [buckets |-> s.buckets, threw |-> s.threw, tier |-> s.tier,
                  urgency |-> IF s.threw THEN None
                              ELSE Some(daysUntilNextPurchase)]

\* comparePurchaseUrgency with the scores subtracted the other way round
comparePurchaseUrgency_descending(u, item1, item2, r) ==
    LET g1 == getItemUrgency(u, item1, r[1], r[2])
        g2 == getItemUrgency(g1.buckets, item2, r[3], r[4])
    IN  IF g1.threw
        THEN [buckets |-> g1.buckets, threw |-> TRUE, result |-> None,
              status1 |-> None, status2 |-> None]
        ELSE IF g2.threw
        THEN [buckets |-> g2.buckets, threw |-> TRUE, result |-> None,
              status1 |-> g1.urgency, status2 |-> None]
        ELSE [buckets |-> g2.buckets, threw |-> FALSE,
              result |-> Some(IF g1.urgency[1] = g2.urgency[1]
                              THEN localeCompare(item1.name, item2.name)
                              ELSE g2.urgency[1] - g1.urgency[1]),
              status1 |-> g1.urgency, status2 |-> g2.urgency]

\* Home.jsx:348-358 comparePurchaseUrgency(item1, item2) on buckets u, with the
\* four clock readings r of its two getItemUrgency calls
comparePurchaseUrgency(u, item1, item2, r) ==
    LET g1 == getItemUrgency(u, item1, r[1], r[2])
        g2 == getItemUrgency(g1.buckets, item2, r[3], r[4])
    IN  IF g1.threw
        THEN [buckets |-> g1.buckets, threw |-> TRUE, result |-> None,
              status1 |-> None, status2 |-> None]
        ELSE IF g2.threw
        THEN [buckets |-> g2.buckets, threw |-> TRUE, result |-> None,
              status1 |-> g1.urgency, status2 |-> None]
        ELSE [buckets |-> g2.buckets, threw |-> FALSE,
              result |-> Some(IF g1.urgency[1] = g2.urgency[1]
                              THEN localeCompare(item1.name, item2.name)
                              ELSE g1.urgency[1] - g2.urgency[1]),
              status1 |-> g1.urgency, status2 |-> g2.urgency]

\* the clock readings a call can make: `n` readings, never decreasing, the
\* clock advancing by at most one tick while the call runs
Readings(n) ==
    {r \in [1..n -> clock..(IF clock < MaxClock THEN clock + 1 ELSE clock)] :
        /\ r[1] >= clock
        /\ \A k \in 1..(n - 1) : r[k] <= r[k + 1]}

Sign(x) == IF x < 0 THEN -1 ELSE IF x > 0 THEN 1 ELSE 0

Range(s) == {s[k] : k \in 1..Len(s)}

----------------------------------------------------------------------------
(* The item records the store can deliver *)

Item(id, name, dateCreated, dateLastPurchased, dateNextPurchased) ==
    [id |-> id, name |-> name, dateCreated |-> dateCreated,
     dateLastPurchased |-> dateLastPurchased,
     dateNextPurchased |-> dateNextPurchased]

Day(k) == At(Today + k, 0)

Catalog ==
    { Item(1, <<"a">>, Day(-5), None, Some(Day(1))),        \* due tomorrow
      Item(2, <<"b">>, Day(-5), None, Some(Day(1))),        \* due tomorrow
      Item(3, <<"A">>, Day(-59), None, Some(Day(0))),       \* dormant tomorrow
      Item(4, <<"a", "b">>, Day(-1), None, Some(Day(1500))),\* due in 4 years
      Item(5, <<"b", "a">>, Day(-90), None, None),          \* dormant, no date
      Item(6, <<"A", "b">>, Day(-10), Some(Day(-3)), Some(Day(-2))) } \* overdue

Ids(s) == {s[k].id : k \in 1..Len(s)}

RemoveAt(s, k) == SubSeq(s, 1, k - 1) \o SubSeq(s, k + 1, Len(s))

\* Home.jsx:225-243 updateItem: the document after a purchase made at `now`,
\* the next purchase estimated `days` days later
updateItem(item, now, days) ==
    [item EXCEPT !.dateLastPurchased = Some(now),
                 !.dateNextPurchased = Some(addDaysFromToday(days, now))]

RECURSIVE Collections(_)
Collections(n) ==
    IF n = 0 THEN {<<>>}
    ELSE Collections(n - 1)
         \cup {Append(s, d) : s \in {c \in Collections(n - 1) : Len(c) = n - 1},
                              d \in Catalog}

\* the lists of at most MaxItems documents, no document twice
AllCollections ==
    {s \in Collections(MaxItems) : Cardinality(Ids(s)) = Len(s)}

\* the collections a snapshot can deliver after the first: a document added,
\* deleted (Home.jsx:245-254) or updated by a purchase (Home.jsx:225-243)
NextCollections ==
    {Append(data, d) : d \in {c \in Catalog : c.id \notin Ids(data)
                                             /\ Len(data) < MaxItems}}
    \cup {RemoveAt(data, k) : k \in 1..Len(data)}
    \cup {[data EXCEPT ![k] = updateItem(data[k], clock, 7)] :
            k \in {n \in 1..Len(data) : data[n].dateLastPurchased = None
                                        /\ data[n].dateNextPurchased # None}}

----------------------------------------------------------------------------
(* Actions *)

NoCall == [kind |-> "none"]

\* the clock advances
Tick ==
    /\ clock < MaxClock
    /\ clock' = clock + 1
    /\ phase' = IF phase = "sorting" THEN phase ELSE "idle"
    /\ UNCHANGED <<data, snapshots, urgencyObject, arr, i, j, passes, passClock,
                   prevBuckets, last, log, calls, formVars>>

\* Home.jsx:99-115 the onSnapshot callback of useShoppingListData: setData.
\* Javascript runs a sort to completion, so no snapshot arrives during a pass.
\* The new list is rendered, but handleSubmit is memoized on listPath alone
\* (AddItems.jsx:62) and keeps the `items` it captured.
OnSnapshot(nextData) ==
    /\ phase # "sorting"
    /\ data' = nextData
    /\ snapshots' = snapshots + 1
    /\ phase' = "idle"
    /\ UNCHANGED <<clock, urgencyObject, arr, i, j, passes, passClock,
                   prevBuckets, last, log, calls, formVars>>

\* the first snapshot delivers whatever the store holds, a later one a change
SnapshotStep ==
    /\ snapshots < MaxSnapshots
    /\ \E nextData \in (IF snapshots = 0 THEN AllCollections
                         ELSE NextCollections) : OnSnapshot(nextData)

\* a classification pass begins: the list is sorted with
\* comparePurchaseUrgency.  A list of fewer than two items is sorted without
\* a single call of the comparator.
StartPass ==
    /\ phase # "sorting"
    /\ passes < MaxPasses
    /\ passes' = passes + 1
    /\ arr' = data
    /\ i' = 2
    /\ j' = 2
    /\ phase' = IF Len(data) < 2 THEN "done" ELSE "sorting"
    /\ passClock' = clock
    /\ prevBuckets' = urgencyObject
    /\ last' = NoCall
    /\ UNCHANGED <<clock, data, snapshots, urgencyObject, log, calls, formVars>>

Swap(s, a, b) == [s EXCEPT ![a] = s[b], ![b] = s[a]]

\* one comparison of the insertion sort: arr[j-1] against arr[j]
CompareStep ==
    /\ phase = "sorting"
    /\ \E r \in Readings(4) :
        LET c == comparePurchaseUrgency(urgencyObject, arr[j - 1], arr[j], r)
            moved == ~c.threw /\ c.result[1] > 0
            inserted == ~moved \/ j = 2
        IN  /\ clock' = r[4]
            /\ urgencyObject' = c.buckets
            /\ last' = [kind |-> "compare", item1 |-> arr[j - 1],
                        item2 |-> arr[j], r |-> r, threw |-> c.threw,
                        result |-> c.result, status1 |-> c.status1,
                        status2 |-> c.status2]
            /\ arr' = IF moved THEN Swap(arr, j - 1, j) ELSE arr
            /\ IF c.threw
               THEN /\ phase' = "failed"
                    /\ UNCHANGED <<i, j>>
               ELSE IF inserted
               THEN /\ i' = i + 1
                    /\ j' = i + 1
                    /\ phase' = IF i + 1 > Len(arr) THEN "done" ELSE "sorting"
               ELSE /\ j' = j - 1
                    /\ UNCHANGED <<i, phase>>
    /\ UNCHANGED <<data, snapshots, passes, passClock, prevBuckets, log, calls,
                   formVars>>

\* the state when the application starts: useState([]) (Home.jsx:91-92),
\* the buckets of Home.jsx:256-262
Init ==
    /\ clock = StartClock
    /\ data = <<>>
    /\ snapshots = 0
    /\ urgencyObject = EmptyBuckets
    /\ phase = "idle"
    /\ arr = <<>>
    /\ i = 2
    /\ j = 2
    /\ passes = 0
    /\ passClock = StartClock
    /\ prevBuckets = EmptyBuckets
    /\ last = NoCall
    /\ log = {}
    /\ calls = 0
    /\ closureItems = <<>>
    /\ form = <<>>

Next == Tick \/ SnapshotStep \/ StartPass \/ CompareStep

Spec == Init /\ [][Next]_vars

----------------------------------------------------------------------------
(* Properties of a pass *)

\* the classification of an item at one fixed instant, the buckets set aside
classify(item, now) == getItemUrgency(EmptyBuckets, item, now, now)

AllBuckets == UNION {urgencyObject[t] : t \in Tiers}

\* C1: after one classification pass (the first, which starts from the empty
\* buckets of the module) the union of the five buckets equals the input
\* collection, lists of 0 or 1 items included, and the buckets are pairwise
\* disjoint.
C1_TotalPartition ==
    (phase = "done" /\ passes = 1) =>
        /\ AllBuckets = Range(arr)
        /\ \A s \in Tiers : \A t \in Tiers \ {s} :
               urgencyObject[s] \cap urgencyObject[t] = {}

\* C2: at the end of each pass no bucket holds an item that an earlier pass
\* put there and that is now absent from the input collection or now
\* classifies into a different tier.
C2_NoStaleMembership ==
    phase = "done" =>
        \A t \in Tiers : \A x \in urgencyObject[t] \cap prevBuckets[t] :
            /\ x \in Range(arr)
            /\ classify(x, clock).tier = Some(t)

\* C6: in the order a pass produces at one fixed instant, every item whose
\* tier is inactive comes after every item of the other four tiers.
C6_InactiveLast ==
    (phase = "done" /\ clock = passClock) =>
        \A p \in 1..Len(arr) : \A q \in 1..Len(arr) :
            (/\ classify(arr[p], clock).tier = Some("inactive")
             /\ classify(arr[q], clock).tier # None
             /\ classify(arr[q], clock).tier # Some("inactive")) => q < p

\* what comparePurchaseUrgency decides when every reading of the clock is
\* `now`: whether it throws, and the sign of its result
compareAt(item1, item2, now) ==
    LET c == comparePurchaseUrgency(EmptyBuckets, item1, item2,
                                    <<now, now, now, now>>)
    IN  [threw |-> c.threw,
         sign |-> IF c.threw THEN None ELSE Some(Sign(c.result[1]))]

\* C9: a comparison orders its two items as it would at a single fixed
\* instant, also when the clock advances while the comparison runs.
C9_SingleInstant ==
    last.kind = "compare" =>
        \E now \in Range(last.r) :
            compareAt(last.item1, last.item2, now)
                = [threw |-> last.threw,
                   sign |-> IF last.threw THEN None
                            ELSE Some(Sign(last.result[1]))]

\* C8: an item without dateNextPurchased is never classified: the call
\* throws, yields no score, and the item enters no bucket.
C8_MissingDateFails ==
    /\ \A x \in AllBuckets : x.dateNextPurchased # None
    /\ last.kind = "compare" =>
        /\ last.item1.dateNextPurchased = None =>
               (last.threw /\ last.status1 = None)
        /\ (last.item2.dateNextPurchased = None /\ last.status1 # None) =>
               (last.threw /\ last.status2 = None)

----------------------------------------------------------------------------
(* getItemUrgency and comparePurchaseUrgency called directly on items drawn *)
(* from a space of records: SpecClassify                                    *)

ItemSpace ==
    { Item(0, name, created, purchased, next) :
        name \in {<<"a">>, <<"A">>},
        created \in {Day(-59), Day(-70)},
        purchased \in {None, Some(Day(-60)), Some(Day(-2))},
        next \in {None, Some(Day(0)), Some(Day(7)), Some(Day(30)),
                  Some(Day(1001))} }

Partners ==
    { Item(1, <<"a">>, Day(-3), None, Some(Day(7))),
      Item(2, <<"b">>, Day(-80), None, Some(Day(2))),
      Item(3, <<"A">>, Day(-3), Some(Day(-1)), Some(Day(1001))) }

InitClassify ==
    /\ clock = StartClock
    /\ data \in {<<a, b>> : a \in ItemSpace, b \in Partners}
    /\ snapshots = 0
    /\ urgencyObject = EmptyBuckets
    /\ phase = "idle"
    /\ arr = <<>>
    /\ i = 2
    /\ j = 2
    /\ passes = 0
    /\ passClock = StartClock
    /\ prevBuckets = EmptyBuckets
    /\ last = NoCall
    /\ log = {}
    /\ calls = 0
    /\ closureItems = <<>>
    /\ form = <<>>

\* what a classification made at one fixed instant adds to the history
Logged(g, item, r1, r2) ==
    IF r1 = r2
    THEN {[item |-> item, now |-> r1, threw |-> g.threw,
           urgency |-> g.urgency, tier |-> g.tier]}
    ELSE {}

\* one call getItemUrgency(data[k])
ClassifyStep ==
    /\ calls < MaxCalls
    /\ \E k \in 1..Len(data) : \E r \in Readings(2) :
        LET g == getItemUrgency(urgencyObject, data[k], r[1], r[2])
        IN  /\ clock' = r[2]
            /\ urgencyObject' = g.buckets
            /\ last' = [kind |-> "classify", item |-> data[k], r |-> r,
                        threw |-> g.threw, urgency |-> g.urgency,
                        tier |-> g.tier, before |-> urgencyObject]
            /\ log' = log \cup Logged(g, data[k], r[1], r[2])
    /\ calls' = calls + 1
    /\ UNCHANGED <<data, snapshots, sortVars, formVars>>

\* one call comparePurchaseUrgency(data[a], data[b])
CompareCall ==
    /\ calls < MaxCalls
    /\ \E a \in 1..Len(data) : \E b \in 1..Len(data) \ {a} :
       \E r \in Readings(4) :
        LET c == comparePurchaseUrgency(urgencyObject, data[a], data[b], r)
            g1 == getItemUrgency(urgencyObject, data[a], r[1], r[2])
            g2 == getItemUrgency(g1.buckets, data[b], r[3], r[4])
        IN  /\ clock' = r[4]
            /\ urgencyObject' = c.buckets
            /\ last' = [kind |-> "compare", item1 |-> data[a],
                        item2 |-> data[b], r |-> r, threw |-> c.threw,
                        result |-> c.result, status1 |-> c.status1,
                        status2 |-> c.status2]
            /\ log' = log \cup Logged(g1, data[a], r[1], r[2])
                          \cup (IF g1.threw THEN {}
                                ELSE Logged(g2, data[b], r[3], r[4]))
    /\ calls' = calls + 1
    /\ UNCHANGED <<data, snapshots, sortVars, formVars>>

NextClassify == Tick \/ ClassifyStep \/ CompareCall

SpecClassify == InitClassify /\ [][NextClassify]_vars

----------------------------------------------------------------------------
(* sortByUrgency called directly with the scores of a range: SpecPlace *)

Scores == (-MaxScore..MaxScore) \cup {999, 1000, 1001}

InitPlace ==
    /\ clock = StartClock
    /\ data \in {<<a>> : a \in Partners}
    /\ snapshots = 0
    /\ urgencyObject = EmptyBuckets
    /\ phase = "idle"
    /\ arr = <<>>
    /\ i = 2
    /\ j = 2
    /\ passes = 0
    /\ passClock = StartClock
    /\ prevBuckets = EmptyBuckets
    /\ last = NoCall
    /\ log = {}
    /\ calls = 0
    /\ closureItems = <<>>
    /\ form = <<>>

\* one call sortByUrgency(data[1], d)
PlaceStep ==
    /\ calls < MaxCalls
    /\ \E d \in Scores :
        LET p == sortByUrgency(urgencyObject, data[1], d)
        IN  /\ urgencyObject' = p.buckets
            /\ last' = [kind |-> "place", item |-> data[1], d |-> d,
                        threw |-> p.threw, tier |-> p.tier,
                        before |-> urgencyObject]
    /\ calls' = calls + 1
    /\ UNCHANGED <<clock, data, snapshots, sortVars, log, formVars>>

NextPlace == PlaceStep

SpecPlace == InitPlace /\ [][NextPlace]_vars

----------------------------------------------------------------------------
(* Properties of single calls *)

FixedInstant(r) == \A k \in 1..Len(r) : r[k] = r[1]

\* whole days from the reference date of an item to `now`
DaysSinceReference(item, now) ==
    dayOf(now) - dayOf(IF item.dateLastPurchased # None
                       THEN item.dateLastPurchased[1]
                       ELSE item.dateCreated)

C7_Deterministic ==
    \A e1 \in log : \A e2 \in log :
        (e1.item = e2.item /\ e1.now = e2.now) => e1 = e2

\* an item was classified a second time at the same instant, the buckets
\* holding it and another item
C7_Witness ==
    /\ last.kind = "classify"
    /\ FixedInstant(last.r)
    /\ last.r[1] = StartClock
    /\ \E t \in Tiers : last.item \in last.before[t]
    /\ \E t \in Tiers : \E x \in last.before[t] : x # last.item
    /\ \E e \in log : e.item = last.item /\ e.now = last.r[1]

----------------------------------------------------------------------------
(* The AddItems form: SpecAdd *)

\* Home.jsx:203-212 addItem: the document it adds when the clock reads `now`
addItem(itemName, daysUntilNextPurchase, now) ==
    [name |-> itemName, dateCreated |-> now, dateLastPurchased |-> None,
     dateNextPurchased |-> Some(addDaysFromToday(daysUntilNextPurchase, now)),
     totalPurchases |-> 0]

\* AddItems.jsx:7-17 the radio options: id |-> value
radioInputOptions ==
    [id \in {"soon", "kindofsoon", "notsoon"} |->
        CASE id = "soon" -> 7 [] id = "kindofsoon" -> 14 [] id = "notsoon" -> 30]

\* event.target.elements[key].value: the form control whose id or name is
\* `key`.  The controls are the text input, id "item-name" (AddItems.jsx:68-74)
\* and the three radio inputs, which carry the ids of radioInputOptions and no
\* name (AddItems.jsx:76-80, RadioInputElement.jsx:4-10).  None: there is no
\* such control, and reading its .value throws a TypeError.
elementValue(key, text) ==
    IF key = "item-name" THEN Some(text)
    ELSE IF key \in DOMAIN radioInputOptions THEN Some(radioInputOptions[key])
    ELSE None

\* AddItems.jsx:22-63 handleSubmit with the `items` of its closure and the
\* text of the name input, up to its first await, its return or its throw:
\* what it did
handleSubmit(items, text, now) ==
    LET itemName == elementValue("item-name", text)[1]
        normalizedItemName == normalize(itemName)
        currentItems == {normalize(items[k].name) : k \in 1..Len(items)}
        daysUntilNextPurchase == elementValue("purchase-date", text)
    IN  IF normalizedItemName \in currentItems
        THEN [outcome |-> "duplicate", alert |-> TRUE, reset |-> TRUE,
              addItem |-> None]
        ELSE IF daysUntilNextPurchase = None
        THEN [outcome |-> "TypeError", alert |-> FALSE, reset |-> FALSE,
              addItem |-> None]
        ELSE [outcome |-> "awaiting", alert |-> FALSE, reset |-> FALSE,
              addItem |-> Some(addItem(itemName, daysUntilNextPurchase[1],
                                       now))]

RECURSIVE Names(_)
Names(n) ==
    IF n = 0 THEN {<<>>}
    ELSE Names(n - 1)
         \cup {Append(s, c) : s \in {t \in Names(n - 1) : Len(t) = n - 1},
                              c \in Chars}

\* the user types a name
TypeName ==
    /\ \E text \in Names(MaxName) : text # form /\ form' = text
    /\ UNCHANGED <<clock, data, snapshots, urgencyObject, sortVars, last, log,
                   calls, closureItems>>

\* the user submits the form: handleSubmit runs
SubmitStep ==
    /\ LET h == handleSubmit(closureItems, form, clock)
        IN  /\ last' = [kind |-> "submit", itemName |-> form, items |-> data,
                        outcome |-> h.outcome, alert |-> h.alert,
                        reset |-> h.reset, addItem |-> h.addItem]
            /\ form' = IF h.reset THEN <<>> ELSE form
    /\ UNCHANGED <<clock, data, snapshots, urgencyObject, sortVars, log, calls,
                   closureItems>>

\* the store changes and the snapshot is delivered
SnapshotChange ==
    /\ snapshots < MaxSnapshots
    /\ \E nextData \in NextCollections : OnSnapshot(nextData)

\* the component mounts with the list of that moment, which handleSubmit
\* captures (AddItems.jsx:19-23)
InitAdd ==
    /\ clock = StartClock
    /\ data \in {s \in AllCollections : Len(s) <= 1}
    /\ closureItems = data
    /\ snapshots = 0
    /\ urgencyObject = EmptyBuckets
    /\ phase = "idle"
    /\ arr = <<>>
    /\ i = 2
    /\ j = 2
    /\ passes = 0
    /\ passClock = StartClock
    /\ prevBuckets = EmptyBuckets
    /\ last = NoCall
    /\ log = {}
    /\ calls = 0
    /\ form = <<>>

NextAdd == TypeName \/ SubmitStep \/ SnapshotChange

SpecAdd == InitAdd /\ [][NextAdd]_vars

Normalized(items) == {normalize(items[k].name) : k \in 1..Len(items)}

\* C10: handleSubmit never calls addItem with a name whose normalized form is
\* that of an item of the list currently passed to the component; given such
\* a name it alerts, resets the form and returns; and the form is reset after
\* every submission.
C10_NoDuplicate ==
    last.kind = "submit" =>
        /\ last.addItem # None =>
              normalize(last.itemName) \notin Normalized(last.items)
        /\ normalize(last.itemName) \in Normalized(last.items) =>
              (last.outcome = "duplicate" /\ last.alert /\ last.reset)
        /\ last.reset

====
